---- MODULE Spec2Model ----
(***************************************************************************)
(* corona_stat.py: a Streamlit script that downloads the OWID covid table  *)
(* (cached per calendar day), offers a country multiselect and a metric    *)
(* selectbox, and draws one interpolated line per selected country.        *)
(*                                                                         *)
(* Time is counted in hours; a CSV date (a day number) is parsed to the    *)
(* timestamp of its midnight.  Text that the code formats and parses again *)
(* (the country name inside the query expression) is a sequence of         *)
(* one-character strings.  Metric values are integers; the value a float   *)
(* interpolation would give is rounded down.                               *)
(***************************************************************************)
EXTENDS Integers, Sequences, FiniteSets, TLC

VARIABLES
    today,      \* date.today(): the calendar day of the wall clock
    cache,      \* the st.cache store of getData: date argument -> table
    served,     \* the date arguments for which a getData call has returned
    display,    \* the elements the browser shows (output of the last run)
    run         \* what the last script run did (calls, fetches, outcome)

vars == <<today, cache, served, display, run>>

-----------------------------------------------------------------------------
(* Bounds of the model *)

MaxDate == 3        \* the clock runs over the days 1..MaxDate
MaxDay == 3         \* a remote table holds observations of the days 0..MaxDay
NumCountries == 12  \* locations of the largest remote table
MaxShift == 1       \* a user selection starts 0..MaxShift options before the first
MaxFew == 2         \* a user selects 0..MaxFew countries, or about as many as the limit

(* Program constants *)

HoursPerDay == 24       \* resample("H") of daily observations
MaxPlotCountries == 10  \* len(drawCountries) <= 10

NaN == -1000000         \* a missing value of a numeric column

-----------------------------------------------------------------------------
(* Texts *)

Quote == "'"

Denmark == <<"D", "e", "n", "m", "a", "r", "k">>
Peru == <<"P", "e", "r", "u">>
CoteDIvoire == <<"C", "o", "t", "e", " ", "d", Quote, "I", "v", "o", "i", "r", "e">>

Digit == <<"0", "1", "2", "3", "4", "5", "6", "7", "8", "9">>

\* The name of the i-th location of the remote data.  The largest table ends
\* with Cote d'Ivoire, the location of the OWID table spelled with a quote.
LocationName(i) ==
    IF i = 1 THEN Denmark
    ELSE IF i = 2 THEN Peru
    ELSE IF i = NumCountries THEN CoteDIvoire
    ELSE <<"L", Digit[((i \div 10) % 10) + 1], Digit[(i % 10) + 1]>>

\* statList, in the order the dict literal lists its entries.
statList ==
    << <<"Total deaths", "total_deaths">>,
       <<"Total deaths per 1.000.000", "total_deaths_per_million">>,
       <<"New deaths today", "new_deaths">>,
       <<"New deaths today per 1.000.000", "new_deaths_per_million">>,
       <<"New cases today", "new_cases">>,
       <<"New cases today per 1.000.000", "new_cases_per_million">>,
       <<"Total tests", "total_tests">>,
       <<"Total test per 1.000", "total_tests_per_thousand">> >>

\* list(statList.keys())
statKeys == [k \in 1..Len(statList) |-> statList[k][1]]

\* Mutant: the column of the first entry, whatever the choice.
statLookup_First(statChoice) == statList[1][2]

\* statList[statChoice]
statLookup(statChoice) ==
    LET k == CHOOSE j \in 1..Len(statList) : statList[j][1] = statChoice
    IN  statList[k][2]

Columns == {statList[k][2] : k \in 1..Len(statList)}

ColumnIndex(col) == CHOOSE k \in 1..Len(statList) : statList[k][2] = col

\* bokeh.palettes.Spectral10
palette ==
    <<"#5e4fa2", "#3288bd", "#66c2a5", "#abdda4", "#e6f598",
      "#fee08b", "#fdae61", "#f46d43", "#d53e4f", "#9e0142">>

defaultCountries == <<Denmark, Peru>>

-----------------------------------------------------------------------------
(* The remote CSV.  What the server holds on day d is the table RemoteCsv(d): *)
(* every location has a row for each day of a non-empty set of days, at most  *)
(* one row per (location, date), and a numeric cell may be empty.             *)

RECURSIVE Pow2(_)
Pow2(n) == IF n = 0 THEN 1 ELSE 2 * Pow2(n - 1)

Days == 0..MaxDay

\* The number of locations of the table of day d: the full list, the list
\* without its last location, or Denmark alone.
RemoteSize(d) ==
    IF d % 3 = 1 THEN NumCountries
    ELSE IF d % 3 = 2 THEN NumCountries - 1
    ELSE 1

\* The days location i has a row for in the table of day d: the days whose
\* bit is set in a code that runs through all non-empty sets of days.
RemoteDays(d, i) ==
    LET code == ((i + d + Pow2(MaxDay + 1) - 4) % (Pow2(MaxDay + 1) - 1)) + 1
    IN  {day \in Days : (code \div Pow2(day)) % 2 = 1}

\* The cell of location i, day, column col in the table of day d.
RemoteCell(d, i, day, col) ==
    LET c == ColumnIndex(col)
    IN  IF (i + 2 * day + c + d) % 7 = 1 THEN NaN
        ELSE ((i * 7 + c * 3 + d) % 11) + ((day * day + (i + c) * day) % 9)

RemoteCsv(d) ==
    LET n == RemoteSize(d)
        w == MaxDay + 1
        slot(k) == [i |-> ((k - 1) \div w) + 1, day |-> (k - 1) % w]
        slots == [k \in 1..(n * w) |-> slot(k)]
        kept == SelectSeq(slots, LAMBDA s : s.day \in RemoteDays(d, s.i))
    IN  [k \in 1..Len(kept) |->
            [f \in {"date", "location"} \cup Columns |->
                IF f = "date" THEN kept[k].day
                ELSE IF f = "location" THEN LocationName(kept[k].i)
                ELSE RemoteCell(d, kept[k].i, kept[k].day, f)]]

-----------------------------------------------------------------------------
(* getData: the download and the two conversions after it *)

\* pd.to_datetime of a CSV date: the timestamp, in hours, of its midnight.
ToDatetime(day) == day * HoursPerDay

\* read_csv, to_datetime and set_index applied to a CSV: the table getData
\* returns, indexed by timestamp.
ParseCsv(csv) ==
    [k \in 1..Len(csv) |->
        [f \in DOMAIN csv[k] |->
            IF f = "date" THEN ToDatetime(csv[k].date) ELSE csv[k][f]]]

\* coronaData.location.unique().tolist(): the locations in the order of
\* their first row.
countryListOf(coronaData) ==
    LET firstRows == SelectSeq([k \in 1..Len(coronaData) |-> k],
                               LAMBDA k : \A j \in 1..(k - 1) :
                                   coronaData[j].location # coronaData[k].location)
    IN  [k \in 1..Len(firstRows) |-> coronaData[firstRows[k]].location]

-----------------------------------------------------------------------------
(* makePlot *)

\* f"location=='{country}'": the text of the string literal in the query.
QueryLiteral(country) == <<Quote>> \o country \o <<Quote>>

IsTriple(text, k) ==
    /\ k + 2 <= Len(text)
    /\ text[k] = Quote /\ text[k + 1] = Quote /\ text[k + 2] = Quote

\* What the expression parser reads from the literal's text: one or more
\* adjacent string literals, which it concatenates.  A quote opens a literal
\* that the next quote closes (three quotes open one that three quotes
\* close); any other character between literals, or a literal left open, is
\* a syntax error.
RECURSIVE ParseLiteral(_)
ParseLiteral(text) ==
    IF text = <<>> \/ text[1] # Quote THEN [ok |-> FALSE, value |-> <<>>]
    ELSE
        LET triple == IsTriple(text, 1)
            from == IF triple THEN 4 ELSE 2
            closers == {k \in from..Len(text) :
                            IF triple THEN IsTriple(text, k) ELSE text[k] = Quote}
        IN  IF closers = {} THEN [ok |-> FALSE, value |-> <<>>]
            ELSE
                LET close == CHOOSE k \in closers : \A j \in closers : k <= j
                    lit == SubSeq(text, from, close - 1)
                    rest == SubSeq(text, close + (IF triple THEN 3 ELSE 1), Len(text))
                    more == ParseLiteral(rest)
                IN  IF rest = <<>> THEN [ok |-> TRUE, value |-> lit]
                    ELSE IF more.ok THEN [ok |-> TRUE, value |-> lit \o more.value]
                    ELSE [ok |-> FALSE, value |-> <<>>]

\* coronaData.query(f"location=='{country}'")
Query(coronaData, country) ==
    LET parsed == ParseLiteral(QueryLiteral(country))
    IN  IF ~parsed.ok THEN [raised |-> TRUE, rows |-> <<>>]
        ELSE [raised |-> FALSE,
              rows |-> SelectSeq(coronaData, LAMBDA r : r.location = parsed.value)]

\* Mutant: no upsampling, the series keeps the dates of the rows.
Resample_RowsOnly(countryData, plotColumn) ==
    [t \in {countryData[k].date : k \in 1..Len(countryData)} |->
        LET k == CHOOSE j \in 1..Len(countryData) : countryData[j].date = t
        IN  countryData[k][plotColumn]]

\* countryData[plotColumn].resample("H") as .interpolate sees it: one point
\* for every hour from the first to the last row, empty where no row is.
Resample(countryData, plotColumn) ==
    IF countryData = <<>> THEN <<>>
    ELSE
        LET dates == {countryData[k].date : k \in 1..Len(countryData)}
            first == CHOOSE t \in dates : \A u \in dates : t <= u
            last == CHOOSE t \in dates : \A u \in dates : t >= u
        IN  [t \in first..last |->
                IF t \in dates
                THEN LET k == CHOOSE j \in 1..Len(countryData) : countryData[j].date = t
                     IN  countryData[k][plotColumn]
                ELSE NaN]

\* The parabola through three points, at t.
Parabola(t0, y0, t1, y1, t2, y2, t) ==
    LET den == (t1 - t0) * (t2 - t0) * (t2 - t1)
        num == y0 * (t - t1) * (t - t2) * (t2 - t1)
               - y1 * (t - t0) * (t - t2) * (t2 - t0)
               + y2 * (t - t0) * (t - t1) * (t1 - t0)
        q == IF num >= 0 THEN num \div den ELSE -((-num + den - 1) \div den)
    IN  q

\* The value of the order-2 fit at an hour t between two known points: the
\* parabola through the known points next to t (the two around it and a
\* third beside them).
Poly2(upsampled, valid, t) ==
    LET below == {u \in valid : u < t}
        above == {u \in valid : u > t}
        lo == CHOOSE u \in below : \A w \in below : w <= u
        hi == CHOOSE u \in above : \A w \in above : u <= w
        before == {u \in below : u < lo}
        after == {u \in above : u > hi}
        t0 == IF before # {} THEN CHOOSE u \in before : \A w \in before : w <= u ELSE lo
        t1 == IF before # {} THEN lo ELSE hi
        t2 == IF before # {} THEN hi ELSE CHOOSE u \in after : \A w \in after : u <= w
    IN  Parabola(t0, upsampled[t0], t1, upsampled[t1], t2, upsampled[t2], t)

\* What the numerical routine does when asked for an order-2 fit through
\* fewer than three known points: it raises, or it leaves the gaps empty.
Underdetermined == {"raise", "leave"}

\* Mutant: a smoothing fit, which also replaces every known point that has
\* known points on both sides by the parabola through its neighbours.
Interpolate_Smoothing(upsampled, routine) ==
    LET valid == {t \in DOMAIN upsampled : upsampled[t] # NaN}
        inner(t) == (\E u \in valid : u < t) /\ (\E u \in valid : u > t)
    IN  IF Cardinality(valid) < 4
        THEN [raised |-> FALSE, underdetermined |-> FALSE, series |-> upsampled]
        ELSE [raised |-> FALSE, underdetermined |-> FALSE,
              series |-> [t \in DOMAIN upsampled |->
                             IF inner(t) THEN Poly2(upsampled, valid \ {t}, t)
                             ELSE upsampled[t]]]

\* upsampled.interpolate(method="polynomial", order=2): nothing to do when
\* no point or every point is known; otherwise the empty points between the
\* first and the last known point are filled, and only those.
Interpolate(upsampled, routine) ==
    LET valid == {t \in DOMAIN upsampled : upsampled[t] # NaN}
    IN  IF valid = {} \/ valid = DOMAIN upsampled
        THEN [raised |-> FALSE, underdetermined |-> FALSE, series |-> upsampled]
        ELSE IF Cardinality(valid) < 3
        THEN [raised |-> routine = "raise", underdetermined |-> TRUE,
              series |-> upsampled]
        ELSE
            LET first == CHOOSE t \in valid : \A u \in valid : t <= u
                last == CHOOSE t \in valid : \A u \in valid : t >= u
            IN  [raised |-> FALSE, underdetermined |-> FALSE,
                 series |-> [t \in DOMAIN upsampled |->
                                IF upsampled[t] # NaN \/ t < first \/ t > last
                                THEN upsampled[t]
                                ELSE Poly2(upsampled, valid, t)]]

\* The body of the loop up to the drawing: the query, the resampling and the
\* interpolation of one country.
CountryCurve(coronaData, plotColumn, country, routine) ==
    LET countryData == Query(coronaData, country)
        upsampled == Resample(countryData.rows, plotColumn)
        interpolated == Interpolate(upsampled, routine)
    IN  IF countryData.raised
        THEN [raised |-> TRUE, error |-> "SyntaxError", underdetermined |-> FALSE,
              rows |-> 0, series |-> <<>>]
        ELSE [raised |-> interpolated.raised,
              error |-> IF interpolated.raised THEN "ValueError" ELSE "",
              underdetermined |-> interpolated.underdetermined,
              rows |-> Len(countryData.rows),
              series |-> interpolated.series]

-----------------------------------------------------------------------------
(* CountryCurve is a function of its arguments, and the tables the script   *)
(* meets are the ones the server holds: their curves are computed once and  *)
(* looked up afterwards.                                                    *)

\* The CSV the server holds on each of the days 1..d, and the table getData
\* makes of each.
RECURSIVE CsvUpTo(_)
CsvUpTo(d) == IF d = 0 THEN <<>> ELSE Append(CsvUpTo(d - 1), RemoteCsv(d))

ServedCsv == CsvUpTo(MaxDate)

RECURSIVE TablesUpTo(_)
TablesUpTo(d) == IF d = 0 THEN <<>> ELSE Append(TablesUpTo(d - 1), ParseCsv(ServedCsv[d]))

ServedTables == TablesUpTo(MaxDate)

Routines == <<"raise", "leave">>

\* The curves by day, column, location and routine: CurvesBelow(path, n) are
\* the entries 1..n under the indices chosen so far.
RECURSIVE CurvesBelow(_, _)
RECURSIVE CurvesAt(_)
CurvesBelow(path, n) ==
    IF n = 0 THEN <<>> ELSE Append(CurvesBelow(path, n - 1), CurvesAt(Append(path, n)))

CurvesAt(path) ==
    IF Len(path) = 1 THEN CurvesBelow(path, Len(statList))
    ELSE IF Len(path) = 2 THEN CurvesBelow(path, NumCountries)
    ELSE IF Len(path) = 3 THEN CurvesBelow(path, Len(Routines))
    ELSE CountryCurve(ServedTables[path[1]], statList[path[2]][2],
                      LocationName(path[3]), Routines[path[4]])

ServedCurves == CurvesBelow(<<>>, MaxDate)

\* CountryCurve, looked up when the table is one the server holds.
Curve(coronaData, plotColumn, country, routine) ==
    LET ds == {d \in 1..MaxDate : ServedTables[d] = coronaData}
        is == {i \in 1..NumCountries : LocationName(i) = country}
        rs == {r \in 1..Len(Routines) : Routines[r] = routine}
    IN  IF ds # {} /\ is # {} /\ plotColumn \in Columns
        THEN ServedCurves[CHOOSE d \in ds : TRUE][ColumnIndex(plotColumn)]
                         [CHOOSE i \in is : TRUE][CHOOSE r \in rs : TRUE]
        ELSE CountryCurve(coronaData, plotColumn, country, routine)

-----------------------------------------------------------------------------

\* figure(...): the empty figure, with the record of the call it belongs to
\* (no error raised yet, no fit underdetermined, no query made) and the table
\* the caller's reference points to.
NewFigure(coronaData) ==
    [raised |-> FALSE, error |-> "", underdetermined |-> FALSE, filtered |-> <<>>,
     fig |-> [x_axis_type |-> "datetime", x_axis_label |-> "Date",
              legend_click_policy |-> "hide", legend_location |-> "top_left",
              renderers |-> <<>>],
     coronaData |-> coronaData]

\* The end of one turn of the loop over enumerate(plotCountries), idx counting
\* from 0: the error of the curve or of palette[idx] ends the call, otherwise
\* fig.line adds the line of the country.
DrawLine(drawn, curve, plotColumn, idx, country) ==
    IF curve.raised
    THEN [drawn EXCEPT !.raised = TRUE, !.error = curve.error,
                       !.underdetermined = @ \/ curve.underdetermined,
                       !.filtered = Append(@, curve.rows)]
    ELSE IF idx >= Len(palette)
    THEN [drawn EXCEPT !.raised = TRUE, !.error = "IndexError",
                       !.underdetermined = @ \/ curve.underdetermined,
                       !.filtered = Append(@, curve.rows)]
    ELSE [drawn EXCEPT !.underdetermined = @ \/ curve.underdetermined,
                       !.filtered = Append(@, curve.rows),
                       !.fig.renderers =
                           Append(@, [x |-> "date", y |-> plotColumn,
                                      color |-> palette[idx + 1],
                                      legend_label |-> country, line_width |-> 2,
                                      source |-> curve.series, name |-> country])]

\* The loop of makePlot over plotCountries[from..], up to the error that ends
\* it, if one does.
RECURSIVE PlotLines(_, _, _, _, _, _)
PlotLines(drawn, coronaData, plotColumn, plotCountries, from, routine) ==
    IF drawn.raised \/ from > Len(plotCountries) THEN drawn
    ELSE PlotLines(DrawLine(drawn,
                            Curve(coronaData, plotColumn, plotCountries[from], routine),
                            plotColumn, from - 1, plotCountries[from]),
                   coronaData, plotColumn, plotCountries, from + 1, routine)

\* Mutant: the missing values of the plotted column are filled in place.
makePlot_InPlace(coronaData, plotColumn, plotCountries, routine) ==
    [PlotLines(NewFigure(coronaData), coronaData, plotColumn, plotCountries, 1, routine)
        EXCEPT !.coronaData = [k \in 1..Len(coronaData) |->
                                  IF coronaData[k][plotColumn] = NaN
                                  THEN [coronaData[k] EXCEPT ![plotColumn] = 0]
                                  ELSE coronaData[k]]]

\* makePlot(coronaData, plotColumn, plotCountries): the figure it returns, or
\* the error it raises, the number of rows each query gave, and the table the
\* caller's reference points to after the call (the function works on
\* copies: the same table).
makePlot(coronaData, plotColumn, plotCountries, routine) ==
    PlotLines(NewFigure(coronaData), coronaData, plotColumn, plotCountries, 1, routine)

-----------------------------------------------------------------------------
(* getData under st.cache *)

\* Mutant: the cache is not keyed by the date; once a table is stored, every
\* call returns it.
getData_DateIgnored(store, dateNow, download) ==
    IF store # <<>>
    THEN [raised |-> FALSE, value |-> store[CHOOSE d \in DOMAIN store : TRUE],
          store |-> store, fetches |-> 0, written |-> <<>>]
    ELSE IF ~download.ok
    THEN [raised |-> TRUE, value |-> <<>>, store |-> store, fetches |-> 1,
          written |-> <<>>]
    ELSE [raised |-> FALSE, value |-> ParseCsv(download.csv),
          store |-> (dateNow :> ParseCsv(download.csv)) @@ store,
          fetches |-> 1, written |-> <<>>]

\* Mutant: when the download fails and an older table is stored, that table
\* is returned in place of the error.
getData_StaleFallback(store, dateNow, download) ==
    IF dateNow \in DOMAIN store
    THEN [raised |-> FALSE, value |-> store[dateNow], store |-> store,
          fetches |-> 0, written |-> <<>>]
    ELSE IF ~download.ok /\ store # <<>>
    THEN [raised |-> FALSE, value |-> store[CHOOSE d \in DOMAIN store : TRUE],
          store |-> store, fetches |-> 1, written |-> <<>>]
    ELSE IF ~download.ok
    THEN [raised |-> TRUE, value |-> <<>>, store |-> store, fetches |-> 1,
          written |-> <<>>]
    ELSE [raised |-> FALSE, value |-> ParseCsv(download.csv),
          store |-> (dateNow :> ParseCsv(download.csv)) @@ store,
          fetches |-> 1, written |-> <<>>]

\* A call getData(dateNow) against the cache `store`.  `download` is what
\* read_csv meets: [ok |-> FALSE] when the download or the parsing fails,
\* else the CSV text.  A stored entry is returned without running the body;
\* otherwise the body runs once, and its result is stored only when it
\* returns.
getData(store, dateNow, download) ==
    IF dateNow \in DOMAIN store
    THEN [raised |-> FALSE, value |-> store[dateNow], store |-> store,
          fetches |-> 0, written |-> <<>>]
    ELSE
        LET written == <<[type |-> "text", body |-> "Fetching fresh data... wait a sec..."]>>
        IN  IF ~download.ok
            THEN [raised |-> TRUE, value |-> <<>>, store |-> store,
                  fetches |-> 1, written |-> written]
            ELSE
                LET coronaData == ParseCsv(download.csv)
                IN  [raised |-> FALSE, value |-> coronaData,
                     store |-> (dateNow :> coronaData) @@ store,
                     fetches |-> 1, written |-> written]

-----------------------------------------------------------------------------
(* The widgets.  A widget keeps the value the user gave it for as long as   *)
(* the script draws the same widget (same label, options and default);      *)
(* `widgets` are the elements of the page the run replaces.                 *)

Elements(widgets, type) == SelectSeq(widgets, LAMBDA e : e.type = type)

InSeq(x, seq) == \E k \in 1..Len(seq) : seq[k] = x

\* st.multiselect(label, options, default)
multiselect(widgets, label, options, default) ==
    LET same == SelectSeq(Elements(widgets, "multiselect"),
                          LAMBDA e : e.label = label /\ e.options = options
                                                     /\ e.default = default)
        value == IF same # <<>> THEN same[1].value ELSE default
    IN  IF \E k \in 1..Len(default) : ~InSeq(default[k], options)
        THEN [raised |-> TRUE, value |-> <<>>, element |-> <<>>]
        ELSE [raised |-> FALSE, value |-> value,
              element |-> [type |-> "multiselect", label |-> label,
                           options |-> options, default |-> default,
                           value |-> value]]

\* st.selectbox(label, options): the first option until the user picks one.
selectbox(widgets, label, options) ==
    LET same == SelectSeq(Elements(widgets, "selectbox"),
                          LAMBDA e : e.label = label /\ e.options = options)
        value == IF same # <<>> THEN same[1].value ELSE options[1]
    IN  [value |-> value,
         element |-> [type |-> "selectbox", label |-> label,
                      options |-> options, value |-> value]]

-----------------------------------------------------------------------------
(* The script, top to bottom *)

Title == [type |-> "markdown", body |-> "Corona stats by Alex Jensen"]

Exception(error) == [type |-> "exception", error |-> error]

TooMany == [type |-> "text", body |-> "Please no more than 10 countries"]

\* The record of a run: the getData call (its argument, the argument of the
\* call before it, the downloads it made and how the last one ended, its
\* outcome) and the makePlot calls.
NoRun ==
    [ran |-> FALSE, dateNow |-> 0, previous |-> 0, fetches |-> 0, download |-> "",
     getData |-> "",
     returned |-> <<>>, drawCountries |-> <<>>, statChoice |-> "",
     underdetermined |-> FALSE, calls |-> <<>>]

\* Mutant: the charts of the page before stay below the new elements.
Page_Layered(widgets, elements) == elements \o Elements(widgets, "bokeh_chart")

\* The page after a run: Streamlit replaces the elements of the page before
\* by the elements the run wrote, in the order it wrote them.
Page(widgets, elements) == elements

\* The table the name coronaData refers to in the cache after the run: the
\* cached object is the one the script passed to makePlot.
Aliased(store, dateNow, coronaData) ==
    [d \in DOMAIN store |-> IF d = dateNow THEN coronaData ELSE store[d]]

\* st.bokeh_chart(p) for the figure of a makePlot call, or the exception
\* the call raised; with the record of the call.
ShowPlot(plot, coronaData, plotColumn, plotCountries) ==
    [elements |-> IF plot.raised THEN <<Exception(plot.error)>>
                  ELSE <<[type |-> "bokeh_chart", fig |-> plot.fig]>>,
     calls |-> <<[coronaData |-> coronaData, plotColumn |-> plotColumn,
                  plotCountries |-> plotCountries, raised |-> plot.raised,
                  filtered |-> plot.filtered, after |-> plot.coronaData]>>,
     underdetermined |-> plot.underdetermined,
     coronaData |-> plot.coronaData]

\* The if/else at the end of the script: the elements it adds, the makePlot
\* calls it makes and the table its reference points to afterwards.
PlotOrRefuse(coronaData, drawCountries, statChoice, routine) ==
    IF Len(drawCountries) <= MaxPlotCountries
    THEN ShowPlot(makePlot(coronaData, statLookup(statChoice), drawCountries, routine),
                  coronaData, statLookup(statChoice), drawCountries)
    ELSE [elements |-> <<TooMany>>,
          calls |-> <<>>,
          underdetermined |-> FALSE,
          coronaData |-> coronaData]

\* The end of a run that drew both controls: the page, the cache and the
\* record of the run, `end` being what the if/else at the end of the script
\* did.
RunEnd(widgets, got, dateNow, done, ms, sb, end) ==
    [display |-> Page(widgets, <<Title>> \o got.written
                               \o <<ms.element, sb.element>> \o end.elements),
     cache |-> Aliased(got.store, dateNow, end.coronaData),
     run |-> [done EXCEPT !.drawCountries = ms.value,
                          !.statChoice = sb.value,
                          !.underdetermined = end.underdetermined,
                          !.calls = end.calls]]

\* One run of the script on day `dateNow` with cache `store`, replacing the
\* page `widgets`: the new page, the new cache and the record of the run.
\* An exception ends the run where it is raised and is shown on the page.
Script(store, widgets, dateNow, previous, download, routine) ==
    LET got == getData(store, dateNow, download)
        base == [NoRun EXCEPT !.ran = TRUE, !.dateNow = dateNow,
                              !.previous = previous, !.fetches = got.fetches,
                              !.download = IF got.fetches = 0 THEN "none"
                                           ELSE IF download.ok THEN "ok"
                                           ELSE "failed"]
    IN  IF got.raised
        THEN [display |-> Page(widgets, <<Title>> \o got.written
                                        \o <<Exception("fetch")>>),
              cache |-> got.store,
              run |-> [base EXCEPT !.getData = "raised"]]
        ELSE
            LET coronaData == got.value
                countryList == countryListOf(coronaData)
                ms == multiselect(widgets, "Select your countries", countryList,
                                  defaultCountries)
                sb == selectbox(widgets, "Choose your statistics", statKeys)
                done == [base EXCEPT !.getData = "returned", !.returned = coronaData]
            IN  IF ms.raised
                THEN [display |-> Page(widgets, <<Title>> \o got.written
                                        \o <<Exception("StreamlitAPIException")>>),
                      cache |-> got.store,
                      run |-> done]
                ELSE RunEnd(widgets, got, dateNow, done, ms, sb,
                            PlotOrRefuse(coronaData, ms.value, sb.value, routine))

-----------------------------------------------------------------------------
(* The state machine *)

Init ==
    /\ today = 1
    /\ cache = <<>>
    /\ served = {}
    /\ display = <<>>
    /\ run = NoRun

\* The outcomes of the download this run can meet (none is met when the
\* cache holds today's table): it fails, or it gives today's CSV.
Downloads ==
    IF today \in DOMAIN cache THEN {[ok |-> FALSE, csv |-> <<>>]}
    ELSE {[ok |-> FALSE, csv |-> <<>>], [ok |-> TRUE, csv |-> ServedCsv[today]]}

Finish(out) ==
    /\ display' = out.display
    /\ cache' = out.cache
    /\ run' = out.run
    /\ served' = IF out.run.getData = "returned" THEN served \cup {today} ELSE served
    /\ UNCHANGED today

\* The end of a run whose outcome with the strict routine is `strict`: where
\* the fit of a curve was underdetermined, the run goes either way.
EitherWay(strict, widgets, download) ==
    \/ Finish(strict)
    \/ /\ strict.run.underdetermined
       /\ Finish(Script(cache, widgets, today, run.dateNow, download, "leave"))

\* Streamlit runs the script against the page `widgets`; `download` is what
\* read_csv meets if the run gets to it.
Rerun(widgets, download) ==
    EitherWay(Script(cache, widgets, today, run.dateNow, download, "raise"),
              widgets, download)

\* A browser opens (or reloads) the page: a run with no widget state.
OpenPage == \E download \in Downloads : Rerun(<<>>, download)

Rotate(seq, s) ==
    [k \in 1..Len(seq) |-> seq[((k + s - 1) % Len(seq)) + 1]]

\* The numbers of countries a user selects out of n options.
SelectionSizes(n) ==
    {len \in 0..n : \/ len <= MaxFew
                    \/ (len >= MaxPlotCountries - 1 /\ len <= MaxPlotCountries + 1)}

\* The user changes the country selection to `len` options, in the order of
\* the list taken as a ring, starting `shift` options before its first one.
ChangeCountries ==
    /\ Elements(display, "multiselect") # <<>>
    /\ LET ms == Elements(display, "multiselect")[1]
       IN  \E shift \in 0..MaxShift, len \in SelectionSizes(Len(ms.options)),
              download \in Downloads :
               LET n == Len(ms.options)
                   value == SubSeq(Rotate(ms.options, (n - (shift % n)) % n), 1, len)
               IN  Rerun([k \in 1..Len(display) |->
                            IF display[k].type = "multiselect"
                            THEN [display[k] EXCEPT !.value = value]
                            ELSE display[k]], download)

\* The user picks another statistic.
ChangeStat ==
    /\ Elements(display, "selectbox") # <<>>
    /\ \E choice \in {statKeys[k] : k \in 1..Len(statKeys)}, download \in Downloads :
           Rerun([k \in 1..Len(display) |->
                    IF display[k].type = "selectbox"
                    THEN [display[k] EXCEPT !.value = choice]
                    ELSE display[k]], download)

\* Midnight passes.
Tick ==
    /\ today < MaxDate
    /\ today' = today + 1
    /\ UNCHANGED <<cache, served, display, run>>

Next == OpenPage \/ ChangeCountries \/ ChangeStat \/ Tick

Spec == Init /\ [][Next]_vars

-----------------------------------------------------------------------------
(* What the properties below talk about *)

Charts == Elements(display, "bokeh_chart")

Controls ==
    /\ Len(Elements(display, "multiselect")) = 1
    /\ Len(Elements(display, "selectbox")) = 1

\* The selections the page shows: the most recent ones.
Selected == Elements(display, "multiselect")[1].value
Chosen == Elements(display, "selectbox")[1].value

RowsOf(coronaData, location) == SelectSeq(coronaData, LAMBDA r : r.location = location)

LocationsOf(coronaData) == {coronaData[k].location : k \in 1..Len(coronaData)}

DatesOf(rows) == {rows[k].date : k \in 1..Len(rows)}

Least(S) == CHOOSE t \in S : \A u \in S : t <= u
Greatest(S) == CHOOSE t \in S : \A u \in S : t >= u

\* The lines of the chart on the page.
Lines == IF Charts = <<>> THEN <<>> ELSE Charts[1].fig.renderers

-----------------------------------------------------------------------------
\* C1 (as claimed): after every run that drew the controls, with more than 10
\* countries selected makePlot was not called, the overflow message is shown
\* and no chart is; with 10 or fewer, makePlot was called once, its chart is
\* shown and the overflow message is not.  Stated for the runs in which no
\* fit was underdetermined.
C1_ChartOrMessage ==
    (run.ran /\ Controls /\ ~run.underdetermined) =>
        IF Len(Selected) > MaxPlotCountries
        THEN run.calls = <<>> /\ InSeq(TooMany, display) /\ Charts = <<>>
        ELSE Len(run.calls) = 1 /\ Len(Charts) = 1 /\ ~InSeq(TooMany, display)

\* C2 (as claimed): every makePlot call with 1..10 countries, all of them
\* locations of the table, returns a chart with one line per country, the
\* i-th named and labelled by the i-th country and coloured palette[i].
\* Stated for the calls in which no fit was underdetermined.
C2_OneLinePerCountry ==
    \A c \in 1..Len(run.calls) :
        LET call == run.calls[c]
            n == Len(call.plotCountries)
        IN  (/\ ~run.underdetermined
             /\ n >= 1 /\ n <= MaxPlotCountries
             /\ \A k \in 1..n : call.plotCountries[k] \in LocationsOf(call.coronaData))
            => /\ ~call.raised
               /\ Len(Lines) = n
               /\ \A k \in 1..n :
                    /\ Lines[k].legend_label = call.plotCountries[k]
                    /\ Lines[k].name = call.plotCountries[k]
                    /\ Lines[k].color = palette[k]
               /\ \A j, k \in 1..n : j # k => Lines[j].color # Lines[k].color

\* C3 (as claimed): a getData call whose date equals that of an earlier call
\* returns the cached table without a download, and a call whose date
\* differs from that of the call before it makes exactly one download.
C3_SameDateNeverFetches ==
    run.ran =>
        /\ (run.previous = run.dateNow =>
                run.fetches = 0 /\ run.getData = "returned")
        /\ ((run.previous # 0 /\ run.previous # run.dateNow) => run.fetches = 1)

\* C3 (amended): a getData call whose date is that of an earlier call that
\* returned a table returns that table, unchanged, without a download; every
\* other call (a new day's date, or a date whose earlier calls all failed)
\* makes exactly one download.
C3_CacheByDate ==
    [][(today' = today /\ run'.ran) =>
          /\ run'.dateNow = today
          /\ IF today \in served
             THEN /\ run'.fetches = 0
                  /\ run'.getData = "returned"
                  /\ run'.returned = cache[today]
             ELSE run'.fetches = 1]_vars

C3_Witness ==
    /\ run.ran /\ run.fetches = 0 /\ run.getData = "returned"
    /\ run.dateNow > 1
    /\ Cardinality(served) >= 2

\* C4: the page never holds more than one chart; a chart on the page is the
\* one makePlot builds from the table of the last run, the statistic and the
\* countries the controls show now, built by the one makePlot call of that
\* run; and while more than 10 countries are selected the page holds none.
C4_OneCurrentChart ==
    /\ Len(Charts) <= 1
    /\ Charts # <<>> =>
          /\ Controls
          /\ Len(run.calls) = 1
          /\ run.calls[1].plotCountries = Selected
          /\ run.calls[1].plotColumn = statLookup(Chosen)
          /\ \E routine \in Underdetermined :
                LET plot == makePlot(run.returned, statLookup(Chosen), Selected, routine)
                IN  ~plot.raised /\ Charts[1].fig = plot.fig
    /\ (Controls /\ Len(Selected) > MaxPlotCountries) => Charts = <<>>

C4_Witness ==
    /\ Len(Charts) = 1
    /\ Selected # defaultCountries
    /\ Chosen # statKeys[1]
    /\ run.fetches = 0

\* C5: every line of a chart is defined on exactly the hours from the first
\* to the last date the table has a row for its country: one point per hour,
\* 24 * D + 1 points for rows spanning D days.
C5_HourlyBetweenFirstAndLast ==
    \A k \in 1..Len(Lines) :
        LET dates == DatesOf(RowsOf(run.returned, Lines[k].name))
            first == Least(dates)
            last == Greatest(dates)
            D == (last - first) \div HoursPerDay
        IN  /\ dates # {}
            /\ DOMAIN Lines[k].source = {t \in first..last : TRUE}
            /\ Cardinality(DOMAIN Lines[k].source) = HoursPerDay * D + 1

C5_Witness ==
    /\ \E k \in 1..Len(Lines) :
          LET dates == DatesOf(RowsOf(run.returned, Lines[k].name))
          IN  /\ Cardinality(dates) = MaxDay + 1
              /\ Cardinality(DOMAIN Lines[k].source) = HoursPerDay * MaxDay + 1
    /\ \E k \in 1..Len(Lines) :
          LET dates == DatesOf(RowsOf(run.returned, Lines[k].name))
          IN  /\ Cardinality(dates) = 2
              /\ Least(dates) > 0
              /\ Cardinality(DOMAIN Lines[k].source) > HoursPerDay

\* C6 (as claimed): a line has, at every date the table has a row for its
\* country, exactly the value of that row, missing where the row's value is
\* missing: only the hours that resampling introduced hold fitted values.
C6_OnlyNewHoursFilled ==
    \A k \in 1..Len(Lines) :
        LET rows == RowsOf(run.returned, Lines[k].name)
        IN  \A j \in 1..Len(rows) :
                Lines[k].source[rows[j].date] = rows[j][Lines[k].y]

\* C6 (amended): a line has, at every date the table has a row with a value
\* for its country, exactly that value, so at the first and the last date
\* too when the table has a value there; fitted values go to the empty
\* points only: the hours that resampling introduced and the dates whose row
\* has no value.
C6_KnownValuesKept ==
    \A k \in 1..Len(Lines) :
        LET rows == RowsOf(run.returned, Lines[k].name)
            first == Least(DatesOf(rows))
            last == Greatest(DatesOf(rows))
        IN  /\ \A j \in 1..Len(rows) :
                  rows[j][Lines[k].y] # NaN =>
                      Lines[k].source[rows[j].date] = rows[j][Lines[k].y]
            /\ \A t \in DOMAIN Lines[k].source :
                  LET at == {j \in 1..Len(rows) : rows[j].date = t}
                  IN  (\A j \in at : rows[j][Lines[k].y] = NaN)
                      \/ \A j \in at : Lines[k].source[t] = rows[j][Lines[k].y]

C6_Witness ==
    \E k \in 1..Len(Lines) :
        LET rows == RowsOf(run.returned, Lines[k].name)
        IN  /\ Len(rows) = MaxDay + 1
            /\ \A j \in 1..Len(rows) : rows[j][Lines[k].y] # NaN
            /\ \A t \in DOMAIN Lines[k].source : Lines[k].source[t] # NaN

\* C7: makePlot leaves its table as it was, so every table in the cache is
\* still the table the download of its day gave, whatever charts were built
\* from it.
C7_TableUnchanged ==
    /\ \A c \in 1..Len(run.calls) : run.calls[c].after = run.calls[c].coronaData
    /\ \A d \in DOMAIN cache : cache[d] = ParseCsv(ServedCsv[d])
    /\ run.getData = "returned" => run.returned = cache[run.dateNow]

C7_Witness ==
    /\ Len(Charts) = 1
    /\ run.fetches = 0
    /\ Chosen # statKeys[1]
    /\ Len(Selected) = MaxPlotCountries

\* C8 (as claimed): the metric selector offers exactly the eight display
\* labels of the specification's table.
C8_SpecLabels ==
    Controls =>
        Elements(display, "selectbox")[1].options =
            <<"Total deaths", "Total deaths per 1,000,000", "New deaths today",
              "New deaths today per 1,000,000", "New cases today",
              "New cases today per 1,000,000", "Total tests", "Total tests per 1,000">>

\* C8 (amended): the metric selector offers exactly the eight display labels
\* below, in this order, with the first as the selection of a fresh page, and
\* the column passed to makePlot is the column this table gives for the
\* label the selector shows.
C8_Table ==
    << <<"Total deaths", "total_deaths">>,
       <<"Total deaths per 1.000.000", "total_deaths_per_million">>,
       <<"New deaths today", "new_deaths">>,
       <<"New deaths today per 1.000.000", "new_deaths_per_million">>,
       <<"New cases today", "new_cases">>,
       <<"New cases today per 1.000.000", "new_cases_per_million">>,
       <<"Total tests", "total_tests">>,
       <<"Total test per 1.000", "total_tests_per_thousand">> >>

C8_LabelsAndColumn ==
    Controls =>
        /\ Elements(display, "selectbox")[1].options =
               [k \in 1..Len(C8_Table) |-> C8_Table[k][1]]
        /\ Len(C8_Table) = 8
        /\ \E k \in 1..Len(C8_Table) :
              /\ C8_Table[k][1] = Chosen
              /\ \A c \in 1..Len(run.calls) : run.calls[c].plotColumn = C8_Table[k][2]
        /\ run.previous = 0 => Chosen = "Total deaths"

C8_Witness ==
    /\ Controls
    /\ Chosen = "Total test per 1.000"
    /\ Len(run.calls) = 1
    /\ Len(Charts) = 1

\* C9: when the download or the parsing fails, the getData call made one
\* download and raised; no table was returned, the cache holds no table for
\* that date and the tables of the other dates are as before; the page shows
\* the exception and neither controls nor a chart, and makePlot was not
\* called.
C9_FetchFailureIsFatal ==
    run.download = "failed" =>
        /\ run.getData = "raised"
        /\ run.fetches = 1
        /\ run.returned = <<>>
        /\ run.dateNow \notin DOMAIN cache
        /\ run.calls = <<>>
        /\ Elements(display, "multiselect") = <<>>
        /\ Elements(display, "selectbox") = <<>>
        /\ Charts = <<>>
        /\ InSeq(Exception("fetch"), display)

C9_Witness ==
    /\ run.download = "failed"
    /\ run.getData = "raised"
    /\ cache # <<>>
    /\ run.previous # 0

\* C10 (as claimed): every country passed to makePlot is a location of the
\* table passed with it, and the query gives at least one row for each.
C10_EveryCountryHasRows ==
    \A c \in 1..Len(run.calls) :
        LET call == run.calls[c]
        IN  /\ \A k \in 1..Len(call.plotCountries) :
                  call.plotCountries[k] \in LocationsOf(call.coronaData)
            /\ (~run.underdetermined =>
                    /\ Len(call.filtered) = Len(call.plotCountries)
                    /\ \A k \in 1..Len(call.filtered) : call.filtered[k] >= 1)

====
